---------------------------- MODULE Spec2Model ----------------------------
(***************************************************************************)
(* llama-zip: arithmetic coding of a token stream under the next-token     *)
(* distribution of a causal language model (src/llama_zip.py).             *)
(*                                                                         *)
(* TLC evaluates 32-bit integers, so the widths of the coder are scaled:   *)
(* the source's 64-bit state, 2^32 frequency scale and 24/53-bit float     *)
(* significands become NUM_STATE_BITS, FREQ_SCALE_BITS, F32_MANT_BITS and  *)
(* F64_MANT_BITS below, keeping the source's order                         *)
(*   F32_MANT_BITS < FREQ_SCALE_BITS < F64_MANT_BITS < NUM_STATE_BITS - 2. *)
(* Byte values and Unicode code points keep their real values.             *)
(***************************************************************************)
EXTENDS Integers, Sequences, FiniteSets, TLC

\* ------------------------------------------------------------------------
\* Program constants
\* ------------------------------------------------------------------------
PUA_START == 57344

\* ------------------------------------------------------------------------
\* Bounds of the model
\* ------------------------------------------------------------------------
\* longest byte string given to the codec
MaxCodecLen == 4
\* longest sequence of (CDF, symbol) pairs given to the coder alone
MaxPairs == 3
\* longest byte string given to compress
MaxInputLen == 3
\* decompress is followed for at most this many decoded symbols
MaxDecodeSteps == 5
\* max_position_embeddings of the loaded model (its context length)
ModelMaxPositions == 3

None == -1

\* ------------------------------------------------------------------------
\* Integer helpers (Python int semantics: unbounded, floor division)
\* ------------------------------------------------------------------------
RECURSIVE Pow2(_)
Pow2(n) == IF n <= 0 THEN 1 ELSE 2 * Pow2(n - 1)

Max(a, b) == IF a >= b THEN a ELSE b
Min(a, b) == IF a <= b THEN a ELSE b

\* bit k of x (two's complement for negative x, as Python's >> and &)
Bit(x, k) == (x \div Pow2(k)) % 2

RECURSIVE SeqsUpTo(_, _)
SeqsUpTo(S, n) ==
    IF n = 0 THEN {<<>>}
    ELSE LET shorter == SeqsUpTo(S, n - 1)
         IN  shorter \cup {Append(s, x) : s \in {t \in shorter : Len(t) = n - 1}, x \in S}

RECURSIVE Flatten(_)
Flatten(ss) == IF ss = <<>> THEN <<>> ELSE Head(ss) \o Flatten(Tail(ss))

\* xs[i:] and xs[:i] for 0 <= i (Python slices, 0-based, clamped)
SliceFrom(xs, i) == SubSeq(xs, Min(i, Len(xs)) + 1, Len(xs))
SliceTo(xs, i) == SubSeq(xs, 1, Min(i, Len(xs)))

\* ------------------------------------------------------------------------
\* Python's str.encode("utf-8") and bytes.decode("utf-8") (strict)
\* ------------------------------------------------------------------------
DecodeError == <<-1>>

\* char.encode("utf-8") for one code point
PyEncodeChar(cp) ==
    IF cp < 128 THEN <<cp>>
    ELSE IF cp < 2048 THEN <<192 + (cp \div 64), 128 + (cp % 64)>>
    ELSE IF cp < 65536 THEN
        <<224 + (cp \div 4096), 128 + ((cp \div 64) % 64), 128 + (cp % 64)>>
    ELSE <<240 + (cp \div 262144), 128 + ((cp \div 4096) % 64),
           128 + ((cp \div 64) % 64), 128 + (cp % 64)>>

IsCont(b) == 128 <= b /\ b <= 191

\* number of bytes announced by a lead byte, 0 when it is no lead byte
LeadLen(b) ==
    IF b < 128 THEN 1
    ELSE IF 192 <= b /\ b <= 223 THEN 2
    ELSE IF 224 <= b /\ b <= 239 THEN 3
    ELSE IF 240 <= b /\ b <= 247 THEN 4
    ELSE 0

\* the code point a sequence of LeadLen bytes denotes, by value
RawCodePoint(bs) ==
    CASE Len(bs) = 1 -> bs[1]
      [] Len(bs) = 2 -> (bs[1] - 192) * 64 + (bs[2] - 128)
      [] Len(bs) = 3 -> (bs[1] - 224) * 4096 + (bs[2] - 128) * 64 + (bs[3] - 128)
      [] OTHER -> (bs[1] - 240) * 262144 + (bs[2] - 128) * 4096
                  + (bs[3] - 128) * 64 + (bs[4] - 128)

MinCodePoint(n) ==
    CASE n = 1 -> 0 [] n = 2 -> 128 [] n = 3 -> 2048 [] OTHER -> 65536

\* bytes.decode("utf-8"): the code points, or DecodeError (UnicodeDecodeError)
\* on a truncated, overlong, surrogate or out-of-range sequence
RECURSIVE PyDecodeUtf8(_)
PyDecodeUtf8(bs) ==
    IF bs = <<>> THEN <<>>
    ELSE LET n == LeadLen(bs[1])
         IN  IF n = 0 \/ n > Len(bs) THEN DecodeError
             ELSE LET unit == SubSeq(bs, 1, n)
                      cp == RawCodePoint(unit)
                  IN  IF \/ \E k \in 2..n : ~IsCont(unit[k])
                         \/ cp < MinCodePoint(n)
                         \/ (55296 <= cp /\ cp <= 57343)
                         \/ cp > 1114111
                      THEN DecodeError
                      ELSE LET rest == PyDecodeUtf8(SubSeq(bs, n + 1, Len(bs)))
                           IN  IF rest = DecodeError THEN DecodeError
                               ELSE <<cp>> \o rest

\* "".join(...).encode("utf-8") of a sequence of code points
RECURSIVE PyEncodeUtf8(_)
PyEncodeUtf8(cps) ==
    IF cps = <<>> THEN <<>> ELSE PyEncodeChar(Head(cps)) \o PyEncodeUtf8(Tail(cps))

\* ------------------------------------------------------------------------
\* Utf8Chunks (src/llama_zip.py:128-211)
\* ------------------------------------------------------------------------
\* mutant of safe_get: a continuation byte past the end
safe_getCont(xs, i) == IF i < Len(xs) THEN xs[i + 1] ELSE 128

\* safe_get(xs, i): xs[i], 0 past the end (0-based i)
safe_get(xs, i) == IF i < Len(xs) THEN xs[i + 1] ELSE 0

TAG_CONT_U8 == 128

\* mutant of NotCont: the mask 128 in place of 192, so every byte >= 80 passes
\* for a continuation byte
NotContMask128(source, i) == (safe_get(source, i) \div 128) * 128 # TAG_CONT_U8

\* safe_get(source, i) & 192 != TAG_CONT_U8
NotCont(source, i) == (safe_get(source, i) \div 64) * 64 # TAG_CONT_U8

\* One pass of the while loop of __next__ from position i: <<i, valid_up_to>>
\* at the point the loop is left (by its condition or by a break).
RECURSIVE Utf8Scan(_, _, _)
Utf8Scan(source, i, valid_up_to) ==
    IF i >= Len(source) THEN <<i, valid_up_to>>
    ELSE
      LET byte == source[i + 1]
          j == i + 1
          next_byte == safe_get(source, j)
      IN
      IF byte < 128 THEN Utf8Scan(source, j, j)
      ELSE IF 194 <= byte /\ byte <= 223 THEN
          IF NotCont(source, j) THEN <<j, valid_up_to>>
          ELSE Utf8Scan(source, j + 1, j + 1)
      ELSE IF 224 <= byte /\ byte <= 239 THEN
          IF \/ (224 = byte /\ 160 <= next_byte /\ next_byte <= 191)
             \/ (225 <= byte /\ byte <= 236 /\ 128 <= next_byte /\ next_byte <= 191)
             \/ (237 = byte /\ 128 <= next_byte /\ next_byte <= 159)
             \/ (238 <= byte /\ byte <= 239 /\ 128 <= next_byte /\ next_byte <= 191)
          THEN IF NotCont(source, j + 1) THEN <<j + 1, valid_up_to>>
               ELSE Utf8Scan(source, j + 2, j + 2)
          ELSE <<j, valid_up_to>>
      ELSE IF 240 <= byte /\ byte <= 244 THEN
          IF \/ (240 = byte /\ 144 <= next_byte /\ next_byte <= 191)
             \/ (241 <= byte /\ byte <= 243 /\ 128 <= next_byte /\ next_byte <= 191)
             \/ (244 = byte /\ 128 <= next_byte /\ next_byte <= 143)
          THEN IF NotCont(source, j + 1) THEN <<j + 1, valid_up_to>>
               ELSE IF NotCont(source, j + 2) THEN <<j + 2, valid_up_to>>
               ELSE Utf8Scan(source, j + 3, j + 3)
          ELSE <<j, valid_up_to>>
      ELSE <<j, valid_up_to>>

\* Utf8Chunk(valid, invalid)
Utf8Chunk(valid, invalid) == [valid |-> valid, invalid |-> invalid]

\* Utf8Chunks.__next__ on a non-empty source: the chunk and the new source
Utf8ChunksNext(source) ==
    LET r == Utf8Scan(source, 0, 0)
        i == r[1]
        valid_up_to == r[2]
        inspected == SliceTo(source, i)
        remaining == SliceFrom(source, i)
    IN  [chunk |-> Utf8Chunk(SliceTo(inspected, valid_up_to),
                             SliceFrom(inspected, valid_up_to)),
         source |-> remaining]

\* list(Utf8Chunks(source)): __next__ until StopIteration
RECURSIVE Utf8Chunks(_)
Utf8Chunks(source) ==
    IF source = <<>> THEN <<>>
    ELSE LET n == Utf8ChunksNext(source)
         IN  <<n.chunk>> \o Utf8Chunks(n.source)

\* ------------------------------------------------------------------------
\* bytes_to_utf8 / utf8_to_bytes (src/llama_zip.py:214-235)
\* ------------------------------------------------------------------------
IsPUA(cp) == PUA_START <= cp /\ cp <= PUA_START + 255

\* chr(PUA_START + byte).encode("utf-8") for every byte of bs
RECURSIVE EscapeBytes(_)
EscapeBytes(bs) ==
    IF bs = <<>> THEN <<>>
    ELSE PyEncodeChar(PUA_START + Head(bs)) \o EscapeBytes(Tail(bs))

\* mutant of EscapeChars: valid code points of U+E000..U+E0FF pass unescaped
EscapeCharsPlain(cps) == PyEncodeUtf8(cps)

\* the inner loop over chunk.valid.decode("utf-8")
RECURSIVE EscapeChars(_)
EscapeChars(cps) ==
    IF cps = <<>> THEN <<>>
    ELSE (IF IsPUA(Head(cps)) THEN EscapeBytes(PyEncodeChar(Head(cps)))
          ELSE PyEncodeChar(Head(cps)))
         \o EscapeChars(Tail(cps))

\* the body of the loop over chunks; DecodeError when chunk.valid.decode raises
RECURSIVE EscapeChunks(_)
EscapeChunks(chunks) ==
    IF chunks = <<>> THEN <<>>
    ELSE LET chunk == Head(chunks)
             chars == PyDecodeUtf8(chunk.valid)
             rest == EscapeChunks(Tail(chunks))
         IN  IF chars = DecodeError \/ rest = DecodeError THEN DecodeError
             ELSE EscapeChars(chars) \o EscapeBytes(chunk.invalid) \o rest

bytes_to_utf8(data) == EscapeChunks(Utf8Chunks(data))

\* data: the code points of a str
RECURSIVE utf8_to_bytes(_)
utf8_to_bytes(data) ==
    IF data = <<>> THEN <<>>
    ELSE (IF IsPUA(Head(data)) THEN <<Head(data) - PUA_START>>
          ELSE PyEncodeChar(Head(data)))
         \o utf8_to_bytes(Tail(data))

\* ------------------------------------------------------------------------
\* ArithmeticCoderBase (src/llama_zip.py:22-51)
\* ------------------------------------------------------------------------
\* width of the coder state (64 in the source, scaled)
NUM_STATE_BITS == 8

full_range == Pow2(NUM_STATE_BITS)
half_range == full_range \div 2
quarter_range == half_range \div 2
state_mask == full_range - 1

\* a | b for a, b >= 0
RECURSIVE BitOr(_, _)
BitOr(a, b) ==
    IF a = 0 THEN b
    ELSE IF b = 0 THEN a
    ELSE Max(a % 2, b % 2) + 2 * BitOr(a \div 2, b \div 2)

\* x ^ half_range
XorHalf(x) == IF Bit(x, NUM_STATE_BITS - 1) = 1 THEN x - half_range ELSE x + half_range

\* x | half_range | 1
OrHalfOne(x) ==
    LET y == IF Bit(x, NUM_STATE_BITS - 1) = 1 THEN x ELSE x + half_range
    IN  IF y % 2 = 1 THEN y ELSE y + 1

\* cum_freqs[i] with Python/numpy indexing: negative i counts from the end
IndexOK(cum_freqs, i) == -Len(cum_freqs) <= i /\ i < Len(cum_freqs)
At(cum_freqs, i) == IF i >= 0 THEN cum_freqs[i + 1] ELSE cum_freqs[Len(cum_freqs) + i + 1]

\* mutant of append_bit: the bits of a byte are filled from the low end
append_bitLsbFirst(st, bit) ==
    LET fresh == st.bit_index = 8
        data == IF fresh THEN Append(st.encoded_data, 0) ELSE st.encoded_data
        bi == IF fresh THEN 0 ELSE st.bit_index
        n == Len(data)
        byte == BitOr(data[n], bit * Pow2(bi))
    IN  IF st.error # "none" THEN st
        ELSE IF byte > 255 THEN [st EXCEPT !.error = "ValueError"]
        ELSE [st EXCEPT !.encoded_data = [data EXCEPT ![n] = byte],
                        !.bit_index = bi + 1]

\* Encoder.append_bit
append_bit(st, bit) ==
    LET fresh == st.bit_index = 8
        data == IF fresh THEN Append(st.encoded_data, 0) ELSE st.encoded_data
        bi == IF fresh THEN 0 ELSE st.bit_index
        n == Len(data)
        byte == BitOr(data[n], bit * Pow2(7 - bi))
    IN  IF st.error # "none" THEN st
        ELSE IF byte > 255 THEN [st EXCEPT !.error = "ValueError"]
        ELSE [st EXCEPT !.encoded_data = [data EXCEPT ![n] = byte],
                        !.bit_index = bi + 1]

RECURSIVE AppendBits(_, _, _)
AppendBits(st, bit, count) ==
    IF count <= 0 THEN st ELSE AppendBits(append_bit(st, bit), bit, count - 1)

\* mutant of EncoderShift: the pending underflow bits are dropped
EncoderShiftNoFlush(st) ==
    [append_bit(st, st.low \div Pow2(NUM_STATE_BITS - 1)) EXCEPT !.num_underflow = 0]

\* Encoder.shift
EncoderShift(st) ==
    LET bit == st.low \div Pow2(NUM_STATE_BITS - 1)
        flipped == IF bit % 2 = 0 THEN bit + 1 ELSE bit - 1
        flushed == AppendBits(append_bit(st, bit), flipped, st.num_underflow)
    IN  [flushed EXCEPT !.num_underflow = 0]

\* Encoder.underflow
EncoderUnderflow(st) == [st EXCEPT !.num_underflow = @ + 1]

\* Decoder.read_code_bit: <<bit, decoder after the read>>
read_code_bit(st) ==
    IF st.byte_index >= Len(st.input) THEN <<0, st>>
    ELSE LET bit == Bit(st.input[st.byte_index + 1], 7 - st.bit_index)
             bi == (st.bit_index + 1) % 8
         IN  <<bit, [st EXCEPT !.bit_index = bi,
                                !.byte_index = IF bi = 0 THEN @ + 1 ELSE @]>>

\* Decoder.shift
DecoderShift(st) ==
    LET r == read_code_bit(st)
    IN  [r[2] EXCEPT !.code = ((2 * st.code) % full_range) + r[1]]

\* mutant of DecoderUnderflow: the top bit of code is shifted out as in shift
DecoderUnderflowAsShift(st) ==
    LET r == read_code_bit(st)
    IN  [r[2] EXCEPT !.code = ((2 * st.code) % full_range) + r[1]]

\* Decoder.underflow
DecoderUnderflow(st) ==
    LET r == read_code_bit(st)
    IN  [r[2] EXCEPT !.code = (Bit(st.code, NUM_STATE_BITS - 1) * half_range)
                              + ((2 * st.code) % half_range) + r[1]]

\* the subclass hooks
shift(st) == IF st.kind = "enc" THEN EncoderShift(st) ELSE DecoderShift(st)
underflow(st) == IF st.kind = "enc" THEN EncoderUnderflow(st) ELSE DecoderUnderflow(st)

\* first while loop of update (lines 38-41)
RECURSIVE RenormShift(_)
RenormShift(st) ==
    IF st.error = "none"
       /\ Bit(st.low, NUM_STATE_BITS - 1) = Bit(st.high, NUM_STATE_BITS - 1)
    THEN LET s1 == shift(st)
         IN  RenormShift([s1 EXCEPT !.low = (2 * st.low) % full_range,
                                    !.high = ((2 * st.high) % full_range) + 1])
    ELSE st

\* second while loop of update (lines 42-45)
RECURSIVE RenormUnderflow(_)
RenormUnderflow(st) ==
    IF st.error = "none"
       /\ Bit(st.low, NUM_STATE_BITS - 2) = 1 /\ Bit(st.high, NUM_STATE_BITS - 2) = 0
    THEN LET s1 == underflow(st)
         IN  RenormUnderflow([s1 EXCEPT !.low = XorHalf(2 * st.low),
                                        !.high = OrHalfOne(2 * XorHalf(st.high))])
    ELSE st

\* lines 32-37: the interval of the symbol
Narrow(st, cum_freqs, symbol) ==
    LET total == At(cum_freqs, -1)
        range == st.high - st.low + 1
        symhigh == At(cum_freqs, symbol)
        symlow == IF symbol > 0 THEN At(cum_freqs, symbol - 1) ELSE 0
    IN  IF ~IndexOK(cum_freqs, symbol) THEN [st EXCEPT !.error = "IndexError"]
        ELSE IF total = 0 THEN [st EXCEPT !.error = "ZeroDivisionError"]
        ELSE [st EXCEPT !.high = st.low + ((symhigh * range) \div total) - 1,
                        !.low = st.low + ((symlow * range) \div total)]

\* ArithmeticCoderBase.update
update(st, cum_freqs, symbol) ==
    IF st.error # "none" THEN st
    ELSE RenormUnderflow(RenormShift(Narrow(st, cum_freqs, symbol)))

\* ------------------------------------------------------------------------
\* Encoder (src/llama_zip.py:54-85)
\* ------------------------------------------------------------------------
Encoder ==
    [kind |-> "enc", low |-> 0, high |-> state_mask, encoded_data |-> <<>>,
     bit_index |-> 8, num_underflow |-> 0, error |-> "none"]

encode_symbol(st, cum_freqs, symbol) == update(st, cum_freqs, symbol)

finish(st) == append_bit(st, 1)

get_encoded(st) == st.encoded_data

\* ------------------------------------------------------------------------
\* Decoder (src/llama_zip.py:88-124)
\* ------------------------------------------------------------------------
\* the sum in __init__: NUM_STATE_BITS calls of read_code_bit, high bit first
RECURSIVE ReadCode(_, _)
ReadCode(st, i) ==
    IF i < 0 THEN st
    ELSE LET r == read_code_bit(st)
         IN  ReadCode([r[2] EXCEPT !.code = @ + r[1] * Pow2(i)], i - 1)

Decoder(data) ==
    ReadCode([kind |-> "dec", low |-> 0, high |-> state_mask, input |-> data,
              byte_index |-> 0, bit_index |-> 0, code |-> 0, error |-> "none"],
             NUM_STATE_BITS - 1)

\* mutant of searchsorted_right: side="left", the first index whose entry is
\* at least value
RECURSIVE SearchFromLeft(_, _, _)
SearchFromLeft(cum_freqs, value, i) ==
    IF i >= Len(cum_freqs) THEN Len(cum_freqs)
    ELSE IF cum_freqs[i + 1] >= value THEN i
    ELSE SearchFromLeft(cum_freqs, value, i + 1)

searchsorted_left(cum_freqs, value) == SearchFromLeft(cum_freqs, value, 0)

\* np.searchsorted(cum_freqs, value, side="right") on a sorted array: the
\* first index whose entry exceeds value, len(cum_freqs) when there is none
RECURSIVE SearchFrom(_, _, _)
SearchFrom(cum_freqs, value, i) ==
    IF i >= Len(cum_freqs) THEN Len(cum_freqs)
    ELSE IF cum_freqs[i + 1] > value THEN i
    ELSE SearchFrom(cum_freqs, value, i + 1)

searchsorted_right(cum_freqs, value) == SearchFrom(cum_freqs, value, 0)

\* line 102: value
DecodeValue(st, cum_freqs) ==
    (((st.code - st.low + 1) * At(cum_freqs, -1)) - 1) \div (st.high - st.low + 1)

\* Decoder.decode_symbol: [symbol, st]
decode_symbol(st, cum_freqs) ==
    LET total == At(cum_freqs, -1)
        range == st.high - st.low + 1
        offset == st.code - st.low
    IN  IF st.error # "none" THEN [symbol |-> None, st |-> st]
        ELSE IF range = 0
        THEN [symbol |-> None, st |-> [st EXCEPT !.error = "ZeroDivisionError"]]
        ELSE LET value == (((offset + 1) * total) - 1) \div range
                 symbol == searchsorted_right(cum_freqs, value)
             IN  [symbol |-> symbol, st |-> update(st, cum_freqs, symbol)]

\* ------------------------------------------------------------------------
\* LlamaZip.compute_cdf (src/llama_zip.py:268-274)
\* ------------------------------------------------------------------------
\* FREQ_SCALE_FACTOR == 1 << FREQ_SCALE_BITS (1 << 32 in the source, scaled)
FREQ_SCALE_BITS == 5
\* significand widths of float32 and float64 (24 and 53, scaled)
F32_MANT_BITS == 4
F64_MANT_BITS == 6
\* a probability is a multiple of 2^-(FREQ_SCALE_BITS + PROB_FRAC_BITS): the
\* product FREQ_SCALE_FACTOR * prob has PROB_FRAC_BITS fractional bits
PROB_FRAC_BITS == 1

FREQ_SCALE_FACTOR == Pow2(FREQ_SCALE_BITS)

\* A probability of the model, m / 2^e (a float32: m has at most F32_MANT_BITS
\* bits), in units of 2^-(FREQ_SCALE_BITS + PROB_FRAC_BITS)
Prob(m, e) == m * Pow2(FREQ_SCALE_BITS + PROB_FRAC_BITS - e)

\* The dtype of FREQ_SCALE_FACTOR * probs, and so of freqs and cum_freqs.
\* probs is a float32 array and FREQ_SCALE_FACTOR a Python int that does not
\* fit 16 bits: NumPy's value-based promotion (NumPy 1.x) gives float64, its
\* weak-scalar promotion (NEP 50, NumPy 2) keeps float32.
Promotions == {"legacy", "nep50"}
MantBits(promotion) == IF promotion = "nep50" THEN F32_MANT_BITS ELSE F64_MANT_BITS

\* round-half-to-even of x / 2^k to an integer (np.round)
RoundHalfEven(x, k) ==
    LET unit == Pow2(k)
        q == x \div unit
        r == x % unit
    IN  IF 2 * r < unit THEN q
        ELSE IF 2 * r > unit THEN q + 1
        ELSE IF q % 2 = 0 THEN q ELSE q + 1

RECURSIVE BitLength(_)
BitLength(x) == IF x <= 0 THEN 0 ELSE 1 + BitLength(x \div 2)

\* the float with a significand of mant bits nearest to the integer x >= 0
\* (IEEE round-to-nearest-even, the rounding of every float addition)
FloatRound(x, mant) ==
    LET n == BitLength(x)
    IN  IF n <= mant THEN x ELSE RoundHalfEven(x, n - mant) * Pow2(n - mant)

\* np.maximum(1, np.round(FREQ_SCALE_FACTOR * probs))
Freqs(probs) == [s \in 1..Len(probs) |-> Max(1, RoundHalfEven(probs[s], PROB_FRAC_BITS))]

\* np.cumsum(freqs): a running sum in the dtype of freqs
RECURSIVE CumSum(_, _, _)
CumSum(freqs, acc, mant) ==
    IF freqs = <<>> THEN <<>>
    ELSE LET next == FloatRound(acc + Head(freqs), mant)
         IN  <<next>> \o CumSum(Tail(freqs), next, mant)

compute_cdf(probs, promotion) == CumSum(Freqs(probs), 0, MantBits(promotion))

\* ------------------------------------------------------------------------
\* State
\* ------------------------------------------------------------------------
VARIABLES
    \* the codec on its own: data -> bytes_to_utf8 -> .decode -> utf8_to_bytes
    codecStage, codecData, codecUtf8, codecText, codecBytes,
    \* compute_cdf on its own
    cdfStage, cdfProbs, cdfPromotion, cdfOut,
    \* the coder on its own: Encoder over pairs, finish, Decoder over the result
    coderPhase, pairs, coderEnc, coderDec, decoded,
    \* the build and the loaded model and tokenizer
    promotion, modelId, eos_token_id, sep_token_id, n_ctx, max_context_length,
    \* the caller: main (command line) or a direct call, and its arguments
    pc, entry, overlapArg, window_overlap, uncompressed, artifact, error,
    \* LlamaZip.compress
    tokens, next_token_idx, interrupted, handler, token_encoder, compressed,
    \* LlamaZip.decompress
    token_decoder, seen_tokens, decompressed,
    \* history: the model inputs and the symbols of every coding step, and
    \* the step at which an interrupt took effect
    cInputs, dInputs, encodedSyms, decodedSyms, interruptedAt,
    \* main: the base64 text given to -d, the -v flag, the mode (-d or -i),
    \* standard output, main's own variable decompressed and the number of
    \* requests served
    b64Input, verbose, mode, stdout, main_decompressed, requests,
    \* history: a KeyboardInterrupt ended the current request, and standard
    \* output as it was when the request began
    cancelled, stdoutBefore,
    \* ArithmeticCoderBase.update statement by statement: the line about to
    \* run, the coder object and the locals of the call
    updPc, coder, frame,
    \* history: the bits given to append_bit, the iterations of the two
    \* loops in this call, the coder when the call began, and whether every
    \* call so far had a strictly increasing CDF of a small total and a
    \* symbol in [0, V)
    emitted, iters, entryState, wellFormed,
    \* Utf8Chunks: self.source and the chunks __next__ has returned
    source, yielded,
    \* compress: its local s, the handler signal.signal returned at line 315;
    \* history: the process SIGINT handler when compress was called
    saved_handler, handlerBefore

codecVars == <<codecStage, codecData, codecUtf8, codecText, codecBytes>>
cdfVars == <<cdfStage, cdfProbs, cdfPromotion, cdfOut>>
coderVars == <<coderPhase, pairs, coderEnc, coderDec, decoded>>
buildVars == <<promotion, modelId, eos_token_id, sep_token_id, n_ctx, max_context_length>>
callVars == <<entry, overlapArg, window_overlap, uncompressed, artifact>>
compressVars == <<tokens, next_token_idx, interrupted, handler, token_encoder, compressed>>
decompressVars == <<token_decoder, seen_tokens, decompressed>>
historyVars == <<cInputs, dInputs, encodedSyms, decodedSyms, interruptedAt>>
pipeVars == <<pc, error, buildVars, callVars, compressVars, decompressVars, historyVars>>
mainVars == <<b64Input, verbose, mode, stdout, main_decompressed, requests,
              cancelled, stdoutBefore>>
updVars == <<updPc, coder, frame, emitted, iters, entryState, wellFormed>>
chunkVars == <<source, yielded>>
signalVars == <<saved_handler, handlerBefore>>
auxVars == <<mainVars, updVars, chunkVars, signalVars>>
vars == <<codecVars, cdfVars, coderVars, pipeVars, auxVars>>

CodecIdle ==
    /\ codecStage = "off" /\ codecData = <<>> /\ codecUtf8 = <<>>
    /\ codecText = <<>> /\ codecBytes = <<>>
CdfIdle ==
    /\ cdfStage = "off" /\ cdfProbs = <<>> /\ cdfPromotion = "legacy" /\ cdfOut = <<>>
CoderIdle ==
    /\ coderPhase = "off" /\ pairs = <<>> /\ coderEnc = Encoder
    /\ coderDec = Decoder(<<>>) /\ decoded = <<>>
CallIdle ==
    /\ tokens = <<>> /\ next_token_idx = 0 /\ interrupted = FALSE
    /\ handler = "default" /\ token_encoder = Encoder /\ compressed = <<>>
    /\ token_decoder = Decoder(<<>>) /\ seen_tokens = <<>> /\ decompressed = <<>>
    /\ cInputs = <<>> /\ dInputs = <<>> /\ encodedSyms = <<>> /\ decodedSyms = <<>>
    /\ interruptedAt = None /\ error = "none" /\ artifact = "none"
PipeIdle ==
    /\ pc = "off" /\ promotion = "legacy" /\ modelId = 0
    /\ eos_token_id = None /\ sep_token_id = None /\ n_ctx = 0
    /\ max_context_length = 0 /\ entry = "api" /\ overlapArg = None
    /\ window_overlap = 0 /\ uncompressed = <<>>
    /\ CallIdle
MainIdle ==
    /\ b64Input = <<>> /\ verbose = FALSE /\ mode = "none" /\ stdout = <<>>
    /\ main_decompressed = "unbound" /\ requests = 0
    /\ cancelled = FALSE /\ stdoutBefore = <<>>
UpdIdle ==
    /\ updPc = "off" /\ coder = Encoder /\ frame = "none" /\ emitted = <<>>
    /\ iters = <<0, 0>> /\ entryState = Encoder /\ wellFormed = TRUE
ChunkIdle == source = <<>> /\ yielded = <<>>
SignalIdle == saved_handler = "unbound" /\ handlerBefore = "none"
AuxIdle == MainIdle /\ UpdIdle /\ ChunkIdle /\ SignalIdle

\* ------------------------------------------------------------------------
\* The codec on its own
\* ------------------------------------------------------------------------
\* Bytes of every class the scanner tells apart: ASCII; continuation bytes
\* below and above the second-byte limits of E0, ED, F0 and F4; the lead
\* bytes C2, E0, ED, EE, F0, F4; the invalid byte FF.  EE 80 80..EE 83 BF
\* are U+E000..U+E0FF and EE 84 80 is U+E100.
CodecByteValues == {65, 128, 131, 132, 160, 191, 194, 224, 237, 238, 240, 244, 255}

InitCodec ==
    /\ codecStage = "input"
    /\ codecData \in SeqsUpTo(CodecByteValues, MaxCodecLen)
    /\ codecUtf8 = <<>> /\ codecText = <<>> /\ codecBytes = <<>>
    /\ CdfIdle /\ CoderIdle /\ PipeIdle /\ AuxIdle

\* bytes_to_utf8(data)
CodecEscape ==
    /\ codecStage = "input"
    /\ codecUtf8' = bytes_to_utf8(codecData)
    /\ codecStage' = IF codecUtf8' = DecodeError THEN "raised" ELSE "escaped"
    /\ UNCHANGED <<codecData, codecText, codecBytes, cdfVars, coderVars, pipeVars, auxVars>>

\* .decode("utf-8") of the result (line 286)
CodecDecode ==
    /\ codecStage = "escaped"
    /\ codecText' = PyDecodeUtf8(codecUtf8)
    /\ codecStage' = IF codecText' = DecodeError THEN "raised" ELSE "decoded"
    /\ UNCHANGED <<codecData, codecUtf8, codecBytes, cdfVars, coderVars, pipeVars, auxVars>>

\* utf8_to_bytes(text)
CodecUnescape ==
    /\ codecStage = "decoded"
    /\ codecBytes' = utf8_to_bytes(codecText)
    /\ codecStage' = "restored"
    /\ UNCHANGED <<codecData, codecUtf8, codecText, cdfVars, coderVars, pipeVars, auxVars>>

NextCodec == CodecEscape \/ CodecDecode \/ CodecUnescape

SpecCodec == InitCodec /\ [][NextCodec]_vars

\* ------------------------------------------------------------------------
\* Utf8Chunks on its own: __init__, then __next__ until StopIteration
\* ------------------------------------------------------------------------
\* ASCII; continuation bytes at the second-byte limits of F4/F0 (8F, 90) and
\* of ED/E0 (9F, A0) and at both ends (80, BF); the invalid lead byte C0;
\* the lead bytes C2, E0, ED, F0, F4
ChunkByteValues == {65, 128, 143, 144, 159, 160, 191, 192, 194, 224, 237, 240, 244}

InitChunks ==
    /\ codecStage = "chunks"
    /\ codecData \in SeqsUpTo(ChunkByteValues, MaxCodecLen)
    /\ codecUtf8 = <<>> /\ codecText = <<>> /\ codecBytes = <<>>
    /\ source = codecData
    /\ yielded = <<>>
    /\ CdfIdle /\ CoderIdle /\ PipeIdle /\ MainIdle /\ UpdIdle /\ SignalIdle

\* __next__ on a non-empty source (lines 139-205)
ChunkNext ==
    /\ codecStage = "chunks"
    /\ source # <<>>
    /\ LET n == Utf8ChunksNext(source)
       IN  /\ yielded' = Append(yielded, n.chunk)
           /\ source' = n.source
    /\ UNCHANGED <<codecVars, cdfVars, coderVars, pipeVars, mainVars, updVars, signalVars>>

\* __next__ on an empty source: StopIteration (lines 136-137)
ChunkStop ==
    /\ codecStage = "chunks"
    /\ source = <<>>
    /\ codecStage' = "stopped"
    /\ UNCHANGED <<codecData, codecUtf8, codecText, codecBytes, source, yielded,
                   cdfVars, coderVars, pipeVars, mainVars, updVars, signalVars>>

NextChunks == ChunkNext \/ ChunkStop

SpecChunks == InitChunks /\ [][NextChunks]_vars

\* ------------------------------------------------------------------------
\* compute_cdf on its own
\* ------------------------------------------------------------------------
\* size of the vocabulary given to compute_cdf on its own
CdfVocab == 4

\* float32 probabilities: 0 (an underflowed exp), the smallest unit, values
\* that round half-way, and large masses
ProbValues ==
    {0, Prob(1, FREQ_SCALE_BITS + PROB_FRAC_BITS), Prob(3, FREQ_SCALE_BITS + PROB_FRAC_BITS),
     Prob(1, 4), Prob(1, 3), Prob(1, 2), Prob(3, 3), Prob(1, 1), Prob(3, 2), Prob(7, 3)}

RECURSIVE SumSeq(_)
SumSeq(xs) == IF xs = <<>> THEN 0 ELSE Head(xs) + SumSeq(Tail(xs))

\* softmax outputs: non-negative, summing to 1 up to the rounding of float32
ProbVectors ==
    {v \in [1..CdfVocab -> ProbValues] :
        /\ SumSeq(v) >= Prob(1, 0) - 2
        /\ SumSeq(v) <= Prob(1, 0) + 2}

InitCdf ==
    /\ cdfStage = "input"
    /\ cdfProbs \in ProbVectors
    /\ cdfPromotion \in Promotions
    /\ cdfOut = <<>>
    /\ CodecIdle /\ CoderIdle /\ PipeIdle /\ AuxIdle

ComputeCdf ==
    /\ cdfStage = "input"
    /\ cdfOut' = compute_cdf(cdfProbs, cdfPromotion)
    /\ cdfStage' = "done"
    /\ UNCHANGED <<cdfProbs, cdfPromotion, codecVars, coderVars, pipeVars, auxVars>>

NextCdf == ComputeCdf

SpecCdf == InitCdf /\ [][NextCdf]_vars

\* ------------------------------------------------------------------------
\* The coder on its own
\* ------------------------------------------------------------------------
\* CDFs over three symbols: plain; a tie (symbol 1 has no interval) beside a
\* symbol of nearly all the mass; a middle symbol straddling the midpoint
\* (underflow); a total of quarter_range; a total above quarter_range
CoderCdfs ==
    {<<3, 5, 8>>, <<1, 1, 32>>, <<15, 17, 32>>,
     <<quarter_range \div 2, quarter_range \div 2 + 1, quarter_range>>,
     <<2 * quarter_range, 2 * quarter_range + 1, 3 * quarter_range>>}

\* c[s] > c[s-1], with c[-1] = 0
HasInterval(cum_freqs, symbol) ==
    At(cum_freqs, symbol) > (IF symbol > 0 THEN At(cum_freqs, symbol - 1) ELSE 0)

InitCoder ==
    /\ coderPhase = "encode" /\ pairs = <<>> /\ coderEnc = Encoder
    /\ coderDec = Decoder(<<>>) /\ decoded = <<>>
    /\ CodecIdle /\ CdfIdle /\ PipeIdle /\ AuxIdle

CoderEncode ==
    /\ coderPhase = "encode"
    /\ Len(pairs) < MaxPairs
    /\ \E cum_freqs \in CoderCdfs : \E symbol \in 0..(Len(cum_freqs) - 1) :
          /\ HasInterval(cum_freqs, symbol)
          /\ coderEnc' = encode_symbol(coderEnc, cum_freqs, symbol)
          /\ pairs' = Append(pairs, [cum_freqs |-> cum_freqs, symbol |-> symbol])
    /\ UNCHANGED <<coderPhase, coderDec, decoded, codecVars, cdfVars, pipeVars, auxVars>>

\* finish(), then a Decoder over get_encoded()
CoderFinish ==
    /\ coderPhase = "encode"
    /\ coderEnc' = finish(coderEnc)
    /\ coderDec' = Decoder(get_encoded(coderEnc'))
    /\ coderPhase' = "decode"
    /\ UNCHANGED <<pairs, decoded, codecVars, cdfVars, pipeVars, auxVars>>

CoderDecode ==
    /\ coderPhase = "decode"
    /\ Len(decoded) < Len(pairs)
    /\ coderDec.error = "none"
    /\ LET r == decode_symbol(coderDec, pairs[Len(decoded) + 1].cum_freqs)
       IN  /\ coderDec' = r.st
           /\ decoded' = Append(decoded, r.symbol)
    /\ UNCHANGED <<coderPhase, pairs, coderEnc, codecVars, cdfVars, pipeVars, auxVars>>

\* longest byte string given to a Decoder that no Encoder produced
MaxGivenLen == 2

\* compressed data of any origin: empty, truncated, corrupted
GivenData == SeqsUpTo({0, 37, 85, 128, 170, 255}, MaxGivenLen)

\* Decoder(data) on data that no Encoder produced (line 358)
CoderGiven ==
    /\ coderPhase = "encode"
    /\ pairs = <<>>
    /\ \E data \in GivenData : coderDec' = Decoder(data)
    /\ coderPhase' = "given"
    /\ UNCHANGED <<pairs, coderEnc, decoded, codecVars, cdfVars, pipeVars, auxVars>>

\* decode_symbol(cum_freqs) on such a Decoder
CoderDecodeGiven ==
    /\ coderPhase = "given"
    /\ Len(pairs) < MaxPairs
    /\ coderDec.error = "none"
    /\ \E cum_freqs \in CoderCdfs :
          LET r == decode_symbol(coderDec, cum_freqs)
          IN  /\ coderDec' = r.st
              /\ decoded' = Append(decoded, r.symbol)
              /\ pairs' = Append(pairs, [cum_freqs |-> cum_freqs, symbol |-> r.symbol])
    /\ UNCHANGED <<coderPhase, coderEnc, codecVars, cdfVars, pipeVars, auxVars>>

NextCoder == CoderEncode \/ CoderFinish \/ CoderDecode \/ CoderGiven \/ CoderDecodeGiven

SpecCoder == InitCoder /\ [][NextCoder]_vars

\* ------------------------------------------------------------------------
\* ArithmeticCoderBase.update of an Encoder, statement by statement
\* ------------------------------------------------------------------------
\* calls of encode_symbol on one Encoder
MaxUpdates == 3

StrictlyIncreasing(c) == c[1] >= 1 /\ \A i \in 2..Len(c) : c[i] > c[i - 1]

\* CDFs over three symbols: plain; a middle symbol straddling the midpoint;
\* the largest total compute_cdf can reach, FREQ_SCALE_FACTOR + V, next to a
\* symbol of frequency 1; a tie; a total of zero
UpdCdfs ==
    {<<3, 5, 8>>, <<15, 17, 32>>, <<1, 2, FREQ_SCALE_FACTOR + 3>>, <<1, 1, 32>>, <<0, 0, 0>>}

\* symbol indices: below 0, in [0, V) and V
UpdSymbols == (-2)..3

\* a strictly increasing CDF of total <= FREQ_SCALE_FACTOR + V and a symbol
\* in [0, V)
WellFormedCall(cum_freqs, symbol) ==
    /\ StrictlyIncreasing(cum_freqs)
    /\ At(cum_freqs, -1) <= FREQ_SCALE_FACTOR + Len(cum_freqs)
    /\ 0 <= symbol /\ symbol < Len(cum_freqs)

\* the loops of update are followed for at most this many iterations
LoopCap == NUM_STATE_BITS + 2

NoFrame ==
    [cum_freqs |-> <<>>, symbol |-> 0, total |-> 0, range |-> 0, symhigh |-> 0,
     call |-> 0, raised |-> "none"]

InitUpdate ==
    /\ updPc = "idle" /\ coder = Encoder /\ frame = NoFrame /\ emitted = <<>>
    /\ iters = <<0, 0>> /\ entryState = Encoder /\ wellFormed = TRUE
    /\ CodecIdle /\ CdfIdle /\ CoderIdle /\ PipeIdle /\ MainIdle /\ ChunkIdle /\ SignalIdle

UpdFrame == <<codecVars, cdfVars, coderVars, pipeVars, mainVars, chunkVars, signalVars>>

\* encode_symbol(cum_freqs, symbol): lines 64-65 and 32-34
UpdBegin ==
    /\ updPc \in {"idle", "raised"}
    /\ frame.call < MaxUpdates
    /\ coder.error = "none"
    /\ \E cum_freqs \in UpdCdfs : \E symbol \in UpdSymbols :
          /\ wellFormed' = (wellFormed /\ WellFormedCall(cum_freqs, symbol))
          /\ IF IndexOK(cum_freqs, symbol)
             THEN /\ updPc' = "l35"
                  /\ frame' = [cum_freqs |-> cum_freqs, symbol |-> symbol,
                               total |-> At(cum_freqs, -1),
                               range |-> coder.high - coder.low + 1,
                               symhigh |-> At(cum_freqs, symbol),
                               call |-> frame.call + 1, raised |-> "none"]
             ELSE /\ updPc' = "raised"
                  /\ frame' = [cum_freqs |-> cum_freqs, symbol |-> symbol,
                               total |-> At(cum_freqs, -1),
                               range |-> coder.high - coder.low + 1,
                               symhigh |-> 0,
                               call |-> frame.call + 1, raised |-> "IndexError"]
    /\ entryState' = coder
    /\ iters' = <<0, 0>>
    /\ UNCHANGED <<coder, emitted, UpdFrame>>

\* line 35
UpdHigh ==
    /\ updPc = "l35"
    /\ IF frame.total = 0
       THEN /\ updPc' = "raised"
            /\ frame' = [frame EXCEPT !.raised = "ZeroDivisionError"]
            /\ UNCHANGED coder
       ELSE /\ updPc' = "l36"
            /\ coder' = [coder EXCEPT !.high =
                             coder.low + ((frame.symhigh * frame.range) \div frame.total) - 1]
            /\ UNCHANGED frame
    /\ UNCHANGED <<emitted, iters, entryState, wellFormed, UpdFrame>>

\* lines 36-37
UpdLow ==
    /\ updPc = "l36"
    /\ LET symlow == IF frame.symbol > 0 THEN At(frame.cum_freqs, frame.symbol - 1) ELSE 0
       IN  coder' = [coder EXCEPT !.low =
                        coder.low + ((symlow * frame.range) \div frame.total)]
    /\ updPc' = "l38"
    /\ UNCHANGED <<frame, emitted, iters, entryState, wellFormed, UpdFrame>>

\* the bits one call of Encoder.shift gives to append_bit
ShiftBits(st) ==
    LET bit == st.low \div Pow2(NUM_STATE_BITS - 1)
        flipped == IF bit % 2 = 0 THEN bit + 1 ELSE bit - 1
    IN  <<bit>> \o [i \in 1..st.num_underflow |-> flipped]

\* line 38, the condition true, and line 39, the call of shift
UpdShiftEnter ==
    /\ updPc = "l38"
    /\ Bit(coder.low, NUM_STATE_BITS - 1) = Bit(coder.high, NUM_STATE_BITS - 1)
    /\ iters[1] < LoopCap
    /\ coder' = shift(coder)
    /\ emitted' = emitted \o ShiftBits(coder)
    /\ iters' = <<iters[1] + 1, iters[2]>>
    /\ IF coder'.error # "none"
       THEN updPc' = "raised" /\ frame' = [frame EXCEPT !.raised = coder'.error]
       ELSE updPc' = "l40" /\ UNCHANGED frame
    /\ UNCHANGED <<entryState, wellFormed, UpdFrame>>

\* mutant of UpdShiftLow: low is masked but not shifted
UpdShiftLowNoShift ==
    /\ updPc = "l40"
    /\ coder' = [coder EXCEPT !.low = coder.low % full_range]
    /\ updPc' = "l41"
    /\ UNCHANGED <<frame, emitted, iters, entryState, wellFormed, UpdFrame>>

\* line 40
UpdShiftLow ==
    /\ updPc = "l40"
    /\ coder' = [coder EXCEPT !.low = (2 * coder.low) % full_range]
    /\ updPc' = "l41"
    /\ UNCHANGED <<frame, emitted, iters, entryState, wellFormed, UpdFrame>>

\* line 41
UpdShiftHigh ==
    /\ updPc = "l41"
    /\ coder' = [coder EXCEPT !.high = ((2 * coder.high) % full_range) + 1]
    /\ updPc' = "l38"
    /\ UNCHANGED <<frame, emitted, iters, entryState, wellFormed, UpdFrame>>

\* line 38, the condition false
UpdShiftExit ==
    /\ updPc = "l38"
    /\ Bit(coder.low, NUM_STATE_BITS - 1) # Bit(coder.high, NUM_STATE_BITS - 1)
    /\ updPc' = "l42"
    /\ UNCHANGED <<coder, frame, emitted, iters, entryState, wellFormed, UpdFrame>>

\* line 42, the condition true, and line 43, the call of underflow
UpdUnderEnter ==
    /\ updPc = "l42"
    /\ Bit(coder.low, NUM_STATE_BITS - 2) = 1 /\ Bit(coder.high, NUM_STATE_BITS - 2) = 0
    /\ iters[2] < LoopCap
    /\ coder' = underflow(coder)
    /\ iters' = <<iters[1], iters[2] + 1>>
    /\ updPc' = "l44"
    /\ UNCHANGED <<frame, emitted, entryState, wellFormed, UpdFrame>>

\* line 44
UpdUnderLow ==
    /\ updPc = "l44"
    /\ coder' = [coder EXCEPT !.low = XorHalf(2 * coder.low)]
    /\ updPc' = "l45"
    /\ UNCHANGED <<frame, emitted, iters, entryState, wellFormed, UpdFrame>>

\* mutant of UpdUnderHigh: the top bit of high is not set again
UpdUnderHighNoHalf ==
    /\ updPc = "l45"
    /\ coder' = [coder EXCEPT !.high = (2 * XorHalf(coder.high)) + 1]
    /\ updPc' = "l42"
    /\ UNCHANGED <<frame, emitted, iters, entryState, wellFormed, UpdFrame>>

\* line 45
UpdUnderHigh ==
    /\ updPc = "l45"
    /\ coder' = [coder EXCEPT !.high = OrHalfOne(2 * XorHalf(coder.high))]
    /\ updPc' = "l42"
    /\ UNCHANGED <<frame, emitted, iters, entryState, wellFormed, UpdFrame>>

\* line 42, the condition false: update returns
UpdReturn ==
    /\ updPc = "l42"
    /\ ~(Bit(coder.low, NUM_STATE_BITS - 2) = 1 /\ Bit(coder.high, NUM_STATE_BITS - 2) = 0)
    /\ updPc' = "idle"
    /\ UNCHANGED <<coder, frame, emitted, iters, entryState, wellFormed, UpdFrame>>

\* finish(), lines 67-68
UpdFinish ==
    /\ updPc = "idle"
    /\ coder' = finish(coder)
    /\ emitted' = Append(emitted, 1)
    /\ updPc' = "finished"
    /\ UNCHANGED <<frame, iters, entryState, wellFormed, UpdFrame>>

NextUpdate ==
    \/ UpdBegin
    \/ UpdHigh
    \/ UpdLow
    \/ UpdShiftEnter
    \/ UpdShiftLow
    \/ UpdShiftHigh
    \/ UpdShiftExit
    \/ UpdUnderEnter
    \/ UpdUnderLow
    \/ UpdUnderHigh
    \/ UpdReturn
    \/ UpdFinish

SpecUpdate == InitUpdate /\ [][NextUpdate]_vars

\* ------------------------------------------------------------------------
\* The tokenizer and the model (transformers; called at lines 254-255, 287,
\* 329-330, 397-399)
\* ------------------------------------------------------------------------
\* The text of every token id (id t is TokenText[t + 1]): "<s>", " ",
\* U+E0EE, U+E080, "[SEP]", "</s>".  Ids 1..3 cover every character that
\* bytes_to_utf8 makes of the bytes 20, 80 and EE.
TokenText ==
    << <<60, 115, 62>>, <<32>>, <<57582>>, <<57472>>,
       <<91, 83, 69, 80, 93>>, <<60, 47, 115, 62>> >>

VocabSize == Len(TokenText)
bos_token_id == 0
SepId == VocabSize - 2
EosId == VocabSize - 1

\* tokenizer.encode(text, add_special_tokens=False): one token per character
RECURSIVE TokenizerEncode(_)
TokenizerEncode(text) ==
    IF text = <<>> THEN <<>>
    ELSE <<(CHOOSE t \in 1..VocabSize : TokenText[t] = <<Head(text)>>) - 1>>
         \o TokenizerEncode(Tail(text))

\* tokenizer.decode(ids, clean_up_tokenization_spaces=False)
RECURSIVE TokenizerDecode(_)
TokenizerDecode(ids) ==
    IF ids = <<>> THEN <<>> ELSE TokenText[Head(ids) + 1] \o TokenizerDecode(Tail(ids))

\* LlamaZip.tokenizer_adds_space_prefix
tokenizer_adds_space_prefix == TokenizerDecode(TokenizerEncode(<<32>>)) = <<32, 32>>

\* Softmax outputs of the model over the vocabulary, as float32 values
ProbTable ==
    << <<Prob(1, 6), Prob(1, 1), Prob(1, 2), Prob(1, 3), Prob(1, 6), Prob(3, 5)>>,
       <<0, Prob(1, 3), Prob(1, 1), Prob(3, 6), Prob(1, 2), Prob(5, 6)>>,
       <<Prob(1, 6), Prob(1, 2), Prob(1, 6), Prob(1, 1), Prob(1, 3), Prob(3, 5)>>,
       <<Prob(1, 6), Prob(1, 1), Prob(1, 2), Prob(1, 6), Prob(1, 3), Prob(3, 5)>> >>

\* exp(log_softmax(model(input_ids).logits[0, -1, :])): a deterministic
\* function of the ids given to the model
ModelProbs(model, input_ids) ==
    ProbTable[((model + Len(input_ids) + SumSeq(input_ids)) % Len(ProbTable)) + 1]

\* ------------------------------------------------------------------------
\* LlamaZip (src/llama_zip.py:238-415)
\* ------------------------------------------------------------------------
\* load_model, lines 257-259
LoadedContextLength(nctx) == IF nctx > 0 THEN nctx ELSE ModelMaxPositions

\* mutant of EndMarker: SEP is preferred to EOS
EndMarkerSepFirst(eos, sep) == IF sep # None THEN sep ELSE eos

\* lines 288-292 and 359-363: the end marker, None when the call raises
EndMarker(eos, sep) == IF eos # None THEN eos ELSE sep

\* mutant of Truncate: one id fewer is kept
TruncateShort(input_ids, max_ctx) ==
    IF Len(input_ids) >= max_ctx
    THEN SubSeq(input_ids, Len(input_ids) - max_ctx + 2, Len(input_ids))
    ELSE input_ids

\* the last max_ctx ids when there are at least max_ctx (lines 324-326, 374-376)
Truncate(input_ids, max_ctx) ==
    IF Len(input_ids) >= max_ctx
    THEN SubSeq(input_ids, Len(input_ids) - max_ctx + 1, Len(input_ids))
    ELSE input_ids

\* lines 319-326: the ids given to the model before encoding tokens[idx]
CompressInputIds(toks, idx, overlap, max_ctx) ==
    LET start_idx == Max(0, idx - overlap)
        context_tokens == IF start_idx >= idx THEN <<>>
                          ELSE SubSeq(toks, start_idx + 1, idx)
    IN  Truncate(<<bos_token_id>> \o context_tokens, max_ctx)

\* mutant of DecompressInputIds: the window starts one token late
DecompressInputIdsLate(seen, overlap, max_ctx) ==
    LET start_idx == Max(0, Len(seen) - overlap + 1)
        context_tokens == SliceFrom(seen, start_idx)
    IN  IF Len(<<bos_token_id>> \o context_tokens) >= max_ctx
        THEN SubSeq(<<bos_token_id>> \o context_tokens,
                    Len(context_tokens) + 2 - max_ctx, Len(context_tokens) + 1)
        ELSE <<bos_token_id>> \o context_tokens

\* lines 369-376: the ids given to the model before decoding the next token
DecompressInputIds(seen, overlap, max_ctx) ==
    LET start_idx == Max(0, Len(seen) - overlap)
        context_tokens == SliceFrom(seen, start_idx)
    IN  Truncate(<<bos_token_id>> \o context_tokens, max_ctx)

\* lines 396-409: the bytes of one decoded token; first says len(seen_tokens) == 1
TokenBytes(next_token, first) ==
    LET next_utf8 == TokenizerDecode(<<next_token>>)
        stripped == IF first /\ next_utf8 # <<>> /\ Head(next_utf8) = 32
                       /\ tokenizer_adds_space_prefix
                    THEN Tail(next_utf8) ELSE next_utf8
    IN  utf8_to_bytes(stripped)

\* main, lines 509-530: the window overlap of a command line argument, None
\* when parser.error ends the process
ParseOverlap(arg, max_ctx) ==
    IF arg.kind = "percent" THEN
        IF ~(0 <= arg.value /\ arg.value <= 100) THEN None
        ELSE (arg.value * (max_ctx - 1)) \div 100
    ELSE IF arg.kind = "tokens" THEN
        LET w == IF arg.value < 0 THEN arg.value + max_ctx ELSE arg.value
        IN  IF ~(0 <= w /\ w < max_ctx) THEN None ELSE w
    ELSE None

\* ------------------------------------------------------------------------
\* base64 (src/llama_zip.py:18-19, 486-489, 541)
\* ------------------------------------------------------------------------
\* BASE64[i] as a byte: A-Z, a-z, 0-9, +, /
B64Char(i) ==
    IF i < 26 THEN 65 + i
    ELSE IF i < 52 THEN 97 + (i - 26)
    ELSE IF i < 62 THEN 48 + (i - 52)
    ELSE IF i = 62 THEN 43 ELSE 47

\* byte in BASE64
InBASE64(byte) == \E i \in 0..63 : B64Char(i) = byte

B64Index(byte) == CHOOSE i \in 0..63 : B64Char(i) = byte

\* base64.b64encode: three bytes to four characters, '=' (61) for the missing
RECURSIVE b64encode(_)
b64encode(bs) ==
    IF bs = <<>> THEN <<>>
    ELSE IF Len(bs) = 1 THEN
        <<B64Char(bs[1] \div 4), B64Char((bs[1] % 4) * 16), 61, 61>>
    ELSE IF Len(bs) = 2 THEN
        <<B64Char(bs[1] \div 4), B64Char((bs[1] % 4) * 16 + bs[2] \div 16),
          B64Char((bs[2] % 16) * 4), 61>>
    ELSE <<B64Char(bs[1] \div 4), B64Char((bs[1] % 4) * 16 + bs[2] \div 16),
           B64Char((bs[2] % 16) * 4 + bs[3] \div 64), B64Char(bs[3] % 64)>>
         \o b64encode(SubSeq(bs, 4, Len(bs)))

\* base64.b64decode of characters of the alphabet, a multiple of four of them
RECURSIVE b64decode(_)
b64decode(cs) ==
    IF Len(cs) < 4 THEN <<>>
    ELSE LET a == B64Index(cs[1])
             b == B64Index(cs[2])
             c == B64Index(cs[3])
             d == B64Index(cs[4])
         IN  <<a * 4 + b \div 16, (b % 16) * 16 + c \div 4, (c % 4) * 64 + d>>
             \o b64decode(SubSeq(cs, 5, Len(cs)))

\* mutant of robust_b64decode: the padding character is '/' (all ones)
robust_b64decodeSlashPad(input_bytes) ==
    LET filtered_base64 == SelectSeq(input_bytes, InBASE64)
        padded_base64 == filtered_base64
            \o [i \in 1..((4 - (Len(filtered_base64) % 4)) % 4) |-> 47]
    IN  b64decode(padded_base64)

\* robust_b64decode; -len % 4 is (4 - len % 4) % 4
robust_b64decode(input_bytes) ==
    LET filtered_base64 == SelectSeq(input_bytes, InBASE64)
        padded_base64 == filtered_base64
            \o [i \in 1..((4 - (Len(filtered_base64) % 4)) % 4) |-> 65]
    IN  b64decode(padded_base64)

\* ------------------------------------------------------------------------
\* compress and decompress, called from main or directly
\* ------------------------------------------------------------------------
\* the bytes 20 (ASCII), 80 and EE: EE 80 80 is the valid code point U+E000,
\* every other 80 or EE is an invalid byte
InputByteValues == {32, 128, 238}

\* tokenizers declaring EOS and SEP, SEP alone, or neither: <<eos, sep>>
TokenizerConfigs == {<<EosId, SepId>>, <<None, SepId>>, <<None, None>>}

ModelIds == {0, 1}

\* -w/--window-overlap on the command line
OverlapArgs ==
    {[kind |-> "percent", value |-> v] : v \in {0, 50, 100, 101}}
    \cup {[kind |-> "tokens", value |-> v] :
             v \in {-(ModelMaxPositions + 1), -1, 0, ModelMaxPositions - 1,
                     ModelMaxPositions}}
    \cup {[kind |-> "text", value |-> 0]}

\* window_overlap passed to compress / decompress directly
ApiOverlaps == {[kind |-> "value", value |-> v] : v \in (-1)..ModelMaxPositions}

\* what happens to the base64 text of an artifact on its way to -d: a newline
\* (10) inserted at a position, the '=' (61) padding dropped
Manglings == {[at |-> a, drop |-> d] : a \in {None, 0, 2}, d \in BOOLEAN}

InsertAt(text, at, ch) ==
    IF at = None \/ at > Len(text) THEN text
    ELSE SubSeq(text, 1, at) \o <<ch>> \o SubSeq(text, at + 1, Len(text))

NotPadding(ch) == ch # 61

Mangle(text, m) ==
    InsertAt(IF m.drop THEN SelectSeq(text, NotPadding) ELSE text, m.at, 10)

\* compressed data that did not come from compress
GivenArtifacts == {<<>>, <<144>>, <<255, 255>>}

Init ==
    /\ pc = "init"
    /\ promotion \in Promotions
    /\ modelId \in ModelIds
    /\ \E cfg \in TokenizerConfigs : eos_token_id = cfg[1] /\ sep_token_id = cfg[2]
    /\ n_ctx \in {0, ModelMaxPositions - 1}
    /\ max_context_length = 0
    /\ entry \in {"cli", "api"}
    /\ overlapArg \in (IF entry = "cli" THEN OverlapArgs ELSE ApiOverlaps)
    /\ window_overlap = 0
    /\ uncompressed \in SeqsUpTo(InputByteValues, MaxInputLen)
    /\ CallIdle
    /\ CodecIdle /\ CdfIdle /\ CoderIdle /\ AuxIdle

\* LlamaZip.__init__ / load_model (lines 239-266, called at line 501)
Construct ==
    /\ pc = "init"
    /\ max_context_length' = LoadedContextLength(n_ctx)
    /\ pc' = IF entry = "cli" THEN "main" ELSE "ready"
    /\ window_overlap' = IF entry = "cli" THEN window_overlap ELSE overlapArg.value
    /\ UNCHANGED <<error, promotion, modelId, eos_token_id, sep_token_id, n_ctx,
                   entry, overlapArg, uncompressed, artifact,
                   compressVars, decompressVars, historyVars,
                   codecVars, cdfVars, coderVars, auxVars>>

\* main, lines 509-530
MainParseOverlap ==
    /\ pc = "main"
    /\ LET w == ParseOverlap(overlapArg, max_context_length)
       IN  IF w = None
           THEN pc' = "exit" /\ error' = "usage" /\ UNCHANGED window_overlap
           ELSE pc' = "ready" /\ window_overlap' = w /\ UNCHANGED error
    /\ UNCHANGED <<buildVars, entry, overlapArg, uncompressed, artifact,
                   compressVars, decompressVars, historyVars,
                   codecVars, cdfVars, coderVars, auxVars>>

\* compress, lines 286-316
CompressStart ==
    /\ pc = "ready"
    /\ LET uncompressed_text == PyDecodeUtf8(bytes_to_utf8(uncompressed))
           end == EndMarker(eos_token_id, sep_token_id)
       IN  IF uncompressed_text = DecodeError
           THEN /\ pc' = "raised" /\ error' = "UnicodeDecodeError"
                /\ UNCHANGED <<tokens, token_encoder, interrupted, handler,
                               next_token_idx, saved_handler>>
           ELSE IF end = None
           THEN /\ pc' = "raised" /\ error' = "ValueError"
                /\ tokens' = TokenizerEncode(uncompressed_text)
                /\ UNCHANGED <<token_encoder, interrupted, handler, next_token_idx,
                               saved_handler>>
           ELSE /\ pc' = "compress" /\ UNCHANGED error
                /\ tokens' = Append(TokenizerEncode(uncompressed_text), end)
                /\ token_encoder' = Encoder
                /\ interrupted' = FALSE
                /\ saved_handler' = handler
                /\ handler' = "sigint_handler"
                /\ next_token_idx' = 0
    /\ handlerBefore' = handler
    /\ UNCHANGED <<buildVars, callVars, compressed, decompressVars, historyVars,
                   codecVars, cdfVars, coderVars, mainVars, updVars, chunkVars>>

\* SIGINT while sigint_handler is installed (lines 309-313)
Sigint ==
    /\ pc = "compress"
    /\ handler = "sigint_handler"
    /\ ~interrupted
    /\ interrupted' = TRUE
    /\ UNCHANGED <<pc, error, buildVars, callVars, tokens, next_token_idx, handler,
                   token_encoder, compressed, decompressVars, historyVars,
                   codecVars, cdfVars, coderVars, auxVars>>

\* one iteration of the loop of compress, lines 318-347
CompressStep ==
    /\ pc = "compress"
    /\ next_token_idx < Len(tokens)
    /\ LET input_ids == CompressInputIds(tokens, next_token_idx, window_overlap,
                                         max_context_length)
           cdf == compute_cdf(ModelProbs(modelId, input_ids), promotion)
           jump == interrupted /\ next_token_idx < Len(tokens) - 1
           idx == IF jump THEN Len(tokens) - 1 ELSE next_token_idx
           next_token == tokens[idx + 1]
           enc == encode_symbol(token_encoder, cdf, next_token)
       IN  /\ next_token_idx' = idx + 1
           /\ token_encoder' = enc
           /\ cInputs' = Append(cInputs, input_ids)
           /\ encodedSyms' = Append(encodedSyms, next_token)
           /\ interruptedAt' = IF jump THEN next_token_idx ELSE interruptedAt
           /\ IF enc.error # "none"
              THEN pc' = "raised" /\ error' = enc.error
              ELSE UNCHANGED <<pc, error>>
    /\ UNCHANGED <<buildVars, callVars, tokens, interrupted, handler, compressed,
                   decompressVars, dInputs, decodedSyms, codecVars, cdfVars, coderVars, auxVars>>

\* the end of compress, lines 349-353
CompressReturn ==
    /\ pc = "compress"
    /\ next_token_idx >= Len(tokens)
    /\ token_encoder' = finish(token_encoder)
    /\ compressed' = get_encoded(token_encoder')
    /\ handler' = saved_handler
    /\ pc' = "compressed"
    /\ artifact' = "compress"
    /\ UNCHANGED <<error, buildVars, entry, overlapArg, window_overlap, uncompressed,
                   tokens, next_token_idx, interrupted, decompressVars, historyVars,
                   codecVars, cdfVars, coderVars, auxVars>>

\* decompress, lines 356-366, on data
DecompressBegin(data) ==
    /\ token_decoder' = Decoder(data)
    /\ seen_tokens' = <<>>
    /\ decompressed' = <<>>
    /\ IF EndMarker(eos_token_id, sep_token_id) = None
       THEN pc' = "raised" /\ error' = "ValueError"
       ELSE pc' = "decompress" /\ UNCHANGED error

\* decompress of what compress returned, with the same window_overlap
DecompressStart ==
    /\ pc = "compressed"
    /\ DecompressBegin(compressed)
    /\ UNCHANGED <<buildVars, callVars, compressVars, historyVars,
                   codecVars, cdfVars, coderVars, auxVars>>

\* decompress of other data (a call that has no input bytes)
DecompressGiven ==
    /\ pc = "ready"
    /\ uncompressed = <<>>
    /\ \E data \in GivenArtifacts :
          /\ compressed' = data
          /\ DecompressBegin(data)
    /\ artifact' = "given"
    /\ UNCHANGED <<buildVars, entry, overlapArg, window_overlap, uncompressed,
                   tokens, next_token_idx, interrupted, handler, token_encoder,
                   historyVars, codecVars, cdfVars, coderVars, auxVars>>

\* main, lines 545-552 with -f base64: the text of the artifact as it reaches
\* -d (a newline inserted, the '=' padding dropped), robust_b64decode, and
\* decompress of the recovered bytes
DecompressBase64 ==
    /\ pc = "compressed"
    /\ entry = "cli"
    /\ \E m \in Manglings :
          /\ b64Input' = Mangle(b64encode(compressed), m)
          /\ DecompressBegin(robust_b64decode(b64Input'))
    /\ artifact' = "base64"
    /\ UNCHANGED <<buildVars, entry, overlapArg, window_overlap, uncompressed,
                   compressVars, historyVars, codecVars, cdfVars, coderVars,
                   verbose, mode, stdout, main_decompressed, requests,
                   cancelled, stdoutBefore, updVars, chunkVars, signalVars>>

\* one iteration of the loop of decompress, lines 368-413; the return at line
\* 415 when the end marker is decoded
DecompressStep ==
    /\ pc = "decompress"
    /\ Len(decodedSyms) < MaxDecodeSteps
    /\ LET input_ids == DecompressInputIds(seen_tokens, window_overlap,
                                           max_context_length)
           cdf == compute_cdf(ModelProbs(modelId, input_ids), promotion)
           r == decode_symbol(token_decoder, cdf)
           next_token == r.symbol
       IN  /\ token_decoder' = r.st
           /\ dInputs' = Append(dInputs, input_ids)
           /\ IF r.st.error # "none"
              THEN /\ pc' = "raised" /\ error' = r.st.error
                   /\ UNCHANGED <<seen_tokens, decompressed, decodedSyms>>
              ELSE /\ decodedSyms' = Append(decodedSyms, next_token)
                   /\ UNCHANGED error
                   /\ IF next_token = EndMarker(eos_token_id, sep_token_id)
                      THEN pc' = "done" /\ UNCHANGED <<seen_tokens, decompressed>>
                      ELSE /\ UNCHANGED pc
                           /\ seen_tokens' = Append(seen_tokens, next_token)
                           /\ decompressed' = decompressed
                                \o TokenBytes(next_token, Len(seen_tokens) = 0)
           /\ stdout' = IF r.st.error = "none" /\ verbose
                             /\ next_token # EndMarker(eos_token_id, sep_token_id)
                          THEN stdout \o TokenBytes(next_token, Len(seen_tokens) = 0)
                          ELSE stdout
    /\ UNCHANGED <<buildVars, callVars, compressVars, cInputs, encodedSyms,
                   interruptedAt, codecVars, cdfVars, coderVars,
                   b64Input, verbose, mode, main_decompressed, requests,
                   cancelled, stdoutBefore, updVars, chunkVars, signalVars>>

Next ==
    \/ Construct
    \/ MainParseOverlap
    \/ CompressStart
    \/ Sigint
    \/ CompressStep
    \/ CompressReturn
    \/ DecompressStart
    \/ DecompressGiven
    \/ DecompressStep

Spec == Init /\ [][Next]_vars

\* ------------------------------------------------------------------------
\* main -c -f base64, then main -d -f base64 on the text of the artifact
\* ------------------------------------------------------------------------
\* -w of the two runs: the default and the largest window
Base64OverlapArgs ==
    {[kind |-> "percent", value |-> 0], [kind |-> "tokens", value |-> ModelMaxPositions - 1]}

InitBase64 ==
    /\ pc = "init"
    /\ promotion \in Promotions
    /\ modelId \in ModelIds
    /\ \E cfg \in TokenizerConfigs : eos_token_id = cfg[1] /\ sep_token_id = cfg[2]
    /\ n_ctx = 0
    /\ max_context_length = 0
    /\ entry = "cli"
    /\ overlapArg \in Base64OverlapArgs
    /\ window_overlap = 0
    /\ uncompressed \in SeqsUpTo(InputByteValues, MaxInputLen)
    /\ CallIdle
    /\ CodecIdle /\ CdfIdle /\ CoderIdle /\ AuxIdle

NextBase64 ==
    \/ Construct
    \/ MainParseOverlap
    \/ CompressStart
    \/ Sigint
    \/ CompressStep
    \/ CompressReturn
    \/ DecompressBase64
    \/ DecompressStep

SpecBase64 == InitBase64 /\ [][NextBase64]_vars

\* ------------------------------------------------------------------------
\* main -d and main -i: what reaches standard output (lines 544-584)
\* ------------------------------------------------------------------------
\* requests served by one interactive session
MaxRequests == 2

\* artifacts given to -d or, as base64 lines, to the interactive prompt
MainArtifacts == {<<160>>, <<112>>, <<255>>}

InitMain ==
    /\ pc = "init"
    /\ promotion \in Promotions
    /\ modelId \in ModelIds
    /\ \E cfg \in TokenizerConfigs : eos_token_id = cfg[1] /\ sep_token_id = cfg[2]
    /\ n_ctx = 0
    /\ max_context_length = 0
    /\ entry = "cli"
    /\ overlapArg \in Base64OverlapArgs
    /\ window_overlap = 0
    /\ uncompressed = <<>>
    /\ CallIdle
    /\ b64Input = <<>> /\ verbose \in BOOLEAN /\ mode \in {"decompress", "interactive"}
    /\ stdout = <<>> /\ main_decompressed = "unbound" /\ requests = 0
    /\ cancelled = FALSE /\ stdoutBefore = <<>>
    /\ CodecIdle /\ CdfIdle /\ CoderIdle /\ UpdIdle /\ ChunkIdle /\ SignalIdle

\* -d (binary format, lines 544-552) or a base64 line at the prompt (lines
\* 559-571): the call of decompress
MainDecompress ==
    /\ pc = "ready"
    /\ mode \in {"decompress", "interactive"}
    /\ requests < (IF mode = "interactive" THEN MaxRequests ELSE 1)
    /\ \E data \in MainArtifacts :
          /\ b64Input' = IF mode = "interactive" THEN b64encode(data) ELSE <<>>
          /\ compressed' = IF mode = "interactive" THEN robust_b64decode(b64Input')
                            ELSE data
          /\ DecompressBegin(compressed')
    /\ requests' = requests + 1
    /\ cancelled' = FALSE
    /\ stdoutBefore' = stdout
    /\ dInputs' = <<>> /\ decodedSyms' = <<>>
    /\ artifact' = "given"
    /\ UNCHANGED <<buildVars, entry, overlapArg, window_overlap, uncompressed,
                   tokens, next_token_idx, interrupted, handler, token_encoder,
                   cInputs, encodedSyms, interruptedAt, verbose, mode, stdout,
                   main_decompressed, codecVars, cdfVars, coderVars, updVars, chunkVars,
                   signalVars>>

\* SIGINT during decompress, which installs no handler: KeyboardInterrupt,
\* caught at lines 572-573 (interactive) or 583-584 (-d)
KeyboardInterrupt ==
    /\ pc = "decompress"
    /\ mode \in {"decompress", "interactive"}
    /\ handler = "default"
    /\ cancelled' = TRUE
    /\ pc' = IF mode = "interactive" THEN "caught" ELSE "exit"
    /\ UNCHANGED <<error, buildVars, callVars, compressVars, decompressVars, historyVars,
                   b64Input, verbose, mode, stdout, main_decompressed, requests,
                   stdoutBefore, codecVars, cdfVars, coderVars, updVars, chunkVars,
                   signalVars>>

\* -d, lines 552-555: decompress returned
MainWrite ==
    /\ pc = "done"
    /\ mode = "decompress"
    /\ main_decompressed' = decompressed
    /\ stdout' = IF verbose THEN stdout ELSE stdout \o decompressed
    /\ pc' = "exit"
    /\ UNCHANGED <<error, buildVars, callVars, compressVars, decompressVars, historyVars,
                   b64Input, verbose, mode, requests, cancelled, stdoutBefore,
                   codecVars, cdfVars, coderVars, updVars, chunkVars, signalVars>>

\* interactive, lines 569-576 and 582: decompress returned, or the except
\* clause passed; then the write of main's variable decompressed
InteractiveWrite ==
    /\ pc \in {"done", "caught"}
    /\ mode = "interactive"
    /\ LET value == IF pc = "done" THEN decompressed ELSE main_decompressed
       IN  /\ main_decompressed' = value
           /\ IF verbose THEN pc' = "ready" /\ UNCHANGED <<stdout, error>>
              ELSE IF value = "unbound"
              THEN pc' = "raised" /\ error' = "UnboundLocalError" /\ UNCHANGED stdout
              ELSE pc' = "ready" /\ stdout' = stdout \o value /\ UNCHANGED error
    /\ UNCHANGED <<buildVars, callVars, compressVars, decompressVars, historyVars,
                   b64Input, verbose, mode, requests, cancelled, stdoutBefore,
                   codecVars, cdfVars, coderVars, updVars, chunkVars, signalVars>>

NextMain ==
    \/ Construct
    \/ MainParseOverlap
    \/ MainDecompress
    \/ DecompressStep
    \/ KeyboardInterrupt
    \/ MainWrite
    \/ InteractiveWrite

SpecMain == InitMain /\ [][NextMain]_vars

\* ------------------------------------------------------------------------
\* compress and the process SIGINT handler
\* ------------------------------------------------------------------------
\* the handler of the process when compress is called: Python's
\* default_int_handler, or one the calling program installed
PriorHandlers == {"default", "caller"}

\* a program that has imported the module and calls LlamaZip.compress
InitSignal ==
    /\ pc = "init"
    /\ promotion \in Promotions
    /\ modelId \in ModelIds
    /\ \E cfg \in TokenizerConfigs : eos_token_id = cfg[1] /\ sep_token_id = cfg[2]
    /\ n_ctx = 0
    /\ max_context_length = 0
    /\ entry = "api"
    /\ overlapArg \in ApiOverlaps
    /\ window_overlap = 0
    /\ uncompressed \in SeqsUpTo(InputByteValues, MaxInputLen)
    /\ handler \in PriorHandlers
    /\ tokens = <<>> /\ next_token_idx = 0 /\ interrupted = FALSE
    /\ token_encoder = Encoder /\ compressed = <<>>
    /\ token_decoder = Decoder(<<>>) /\ seen_tokens = <<>> /\ decompressed = <<>>
    /\ cInputs = <<>> /\ dInputs = <<>> /\ encodedSyms = <<>> /\ decodedSyms = <<>>
    /\ interruptedAt = None /\ error = "none" /\ artifact = "none"
    /\ CodecIdle /\ CdfIdle /\ CoderIdle /\ AuxIdle

\* self.model(input_ids=input_ids) raises (lines 328-329): the exception
\* leaves compress, which has no try/finally around its loop
ModelCallRaises ==
    /\ pc = "compress"
    /\ next_token_idx < Len(tokens)
    /\ pc' = "raised"
    /\ error' = "RuntimeError"
    /\ UNCHANGED <<buildVars, callVars, compressVars, decompressVars, historyVars,
                   codecVars, cdfVars, coderVars, auxVars>>

NextSignal ==
    \/ Construct
    \/ CompressStart
    \/ Sigint
    \/ CompressStep
    \/ ModelCallRaises
    \/ CompressReturn

SpecSignal == InitSignal /\ [][NextSignal]_vars

\* ------------------------------------------------------------------------
\* Properties
\* ------------------------------------------------------------------------
InRange == 0 <= window_overlap /\ window_overlap < max_context_length

IsPrefix(xs, ys) == Len(xs) <= Len(ys) /\ xs = SubSeq(ys, 1, Len(xs))

\* the bytes decompress appends for the tokens toks, decoded in this order
RECURSIVE BytesOfTokens(_, _)
BytesOfTokens(toks, first) ==
    IF toks = <<>> THEN <<>>
    ELSE TokenBytes(Head(toks), first) \o BytesOfTokens(Tail(toks), FALSE)

\* C1: without an interrupt and with 0 <= window_overlap < max_context,
\* decompress of what compress returned for the bytes b returns exactly b: it
\* does not raise, and when it returns its result is the input of compress.
C1_RoundTrip ==
    (artifact = "compress" /\ interruptedAt = None /\ InRange)
        => /\ pc # "raised"
           /\ (pc = "done" => decompressed = uncompressed)

SmallTotals == \A i \in 1..Len(pairs) : At(pairs[i].cum_freqs, -1) <= quarter_range

\* the Decoder returned the symbols the Encoder was given, in order
DecodedAsEncoded ==
    /\ coderDec.error = "none"
    /\ \A i \in 1..Len(decoded) : decoded[i] = pairs[i].symbol

\* C3 (as stated): for any sequence of (CDF, symbol) pairs whose symbols have
\* a non-empty interval, decoding the finished encoding with the same CDFs
\* returns the same symbols in order.
C3_Original == coderPhase = "decode" => DecodedAsEncoded

\* C3 (amended): the same, for CDFs whose total is at most quarter_range.
C3_CoderRoundTrip == (coderPhase = "decode" /\ SmallTotals) => DecodedAsEncoded

\* C3 witness: MaxPairs symbols decoded as encoded, one of them under the
\* CDF with a tie, with underflow bits having been pending in the encoder.
C3_Witness ==
    /\ coderPhase = "decode" /\ SmallTotals
    /\ Len(decoded) = MaxPairs /\ Len(pairs) = MaxPairs
    /\ DecodedAsEncoded
    /\ \E i \in 1..Len(pairs) : pairs[i].cum_freqs = <<1, 1, 32>>
    /\ \E i \in 1..Len(pairs) : pairs[i] = [cum_freqs |-> <<15, 17, 32>>, symbol |-> 1]

\* C4: utf8_to_bytes of the text of bytes_to_utf8(b) is b, for every b.
C4_CodecRoundTrip == codecStage = "restored" => codecBytes = codecData

\* C4 witness: a valid code point of U+E000..U+E0FF next to a raw invalid
\* byte, both recovered.
C4_Witness ==
    /\ codecStage = "restored"
    /\ codecData = <<238, 131, 191, 255>>
    /\ codecText = <<57582, 57475, 57535, 57599>>
    /\ codecBytes = codecData

\* C5: bytes_to_utf8 never raises and its output decodes as UTF-8.
C5_ValidUtf8 ==
    /\ codecStage # "raised"
    /\ codecStage \in {"escaped", "decoded", "restored"} => PyDecodeUtf8(codecUtf8) # DecodeError

\* C5 witness: a surrogate (ED A0 80) and a lead byte (E0) cut short by the
\* end of the input; the output is decoded, one escape per byte.
C5_Witness ==
    /\ codecStage = "decoded"
    /\ codecData = <<237, 160, 128, 224>>
    /\ Len(codecText) = 4

\* C6: the vector compute_cdf returns is strictly increasing with c[0] >= 1.
C6_StrictCdf == cdfStage = "done" => StrictlyIncreasing(cdfOut)

\* C7: when the interrupt takes effect at step k < n-1, the symbol encoded at
\* that step is the end marker, under the CDF of the prefix T[0..k); nothing
\* is encoded after it; and decompress of the result decodes the tokens
\* T[0..k), then the end marker, and returns their bytes.
C7_Interrupt ==
    interruptedAt # None
        => LET k == interruptedAt
           IN  /\ Len(encodedSyms) = k + 1
               /\ encodedSyms[k + 1] = tokens[Len(tokens)]
               /\ cInputs[k + 1] = CompressInputIds(tokens, k, window_overlap,
                                                    max_context_length)
               /\ pc # "raised"
               /\ pc \in {"decompress", "done"} => IsPrefix(decodedSyms, encodedSyms)
               /\ pc = "done" =>
                     decompressed = BytesOfTokens(SubSeq(tokens, 1, k), TRUE)

\* C8: decompress of what compress returned for T[0..n) decodes the symbols
\* of T in order, returns when it has decoded n symbols and not before, and
\* adds nothing to seen_tokens or to the output for the end marker.
C8_Termination ==
    (artifact = "compress" /\ interruptedAt = None /\ pc \in {"decompress", "done"})
        => /\ IsPrefix(decodedSyms, tokens)
           /\ (pc = "done" <=> Len(decodedSyms) = Len(tokens))
           /\ pc = "done" =>
                 /\ seen_tokens = SubSeq(tokens, 1, Len(tokens) - 1)
                 /\ decompressed = BytesOfTokens(seen_tokens, TRUE)

\* the caller asked for a window overlap that is negative or >= max_context
RequestedOutside ==
    /\ overlapArg.kind \in {"tokens", "value"}
    /\ (overlapArg.value < 0 \/ overlapArg.value >= max_context_length)

\* C9: after a request for a window overlap outside [0, max_context), from
\* the command line or in a direct call, no token is encoded or decoded.
C9_OverlapRejected ==
    (pc # "init" /\ RequestedOutside)
        => (encodedSyms = <<>> /\ decodedSyms = <<>> /\ dInputs = <<>>)

NeitherDeclared == eos_token_id = None /\ sep_token_id = None

\* the end marker by the rule of the claim: EOS, or SEP when no EOS is declared
DeclaredMarker == IF eos_token_id # None THEN eos_token_id ELSE sep_token_id

\* compress appends the end marker of the rule and decompress returns on it
MarkerSelected ==
    /\ pc \in {"compress", "compressed", "decompress", "done"} /\ tokens # <<>>
          => tokens[Len(tokens)] = DeclaredMarker
    /\ pc = "done" => decodedSyms[Len(decodedSyms)] = DeclaredMarker
    /\ \A i \in 1..Len(seen_tokens) : seen_tokens[i] # DeclaredMarker

DecompressEntry(data) ==
    [token_decoder |-> Decoder(data), seen_tokens |-> <<>>, decompressed |-> <<>>,
     decodedSyms |-> <<>>,
     pc |-> IF EndMarker(eos_token_id, sep_token_id) = None THEN "raised" ELSE "decompress",
     error |-> IF EndMarker(eos_token_id, sep_token_id) = None THEN "ValueError" ELSE "none"]

\* ... after one more iteration of its loop (lines 368-413) ...
DecompressIter(r) ==
    LET input_ids == DecompressInputIds(r.seen_tokens, window_overlap, max_context_length)
        cdf == compute_cdf(ModelProbs(modelId, input_ids), promotion)
        d == decode_symbol(r.token_decoder, cdf)
    IN  IF d.st.error # "none"
        THEN [r EXCEPT !.token_decoder = d.st, !.pc = "raised", !.error = d.st.error]
        ELSE IF d.symbol = EndMarker(eos_token_id, sep_token_id)
        THEN [r EXCEPT !.token_decoder = d.st, !.pc = "done",
                       !.decodedSyms = Append(@, d.symbol)]
        ELSE [r EXCEPT !.token_decoder = d.st,
                       !.decodedSyms = Append(@, d.symbol),
                       !.seen_tokens = Append(@, d.symbol),
                       !.decompressed = @ \o TokenBytes(d.symbol, Len(r.seen_tokens) = 0)]

\* ... and after at most n iterations
RECURSIVE DecompressRun(_, _)
DecompressRun(r, n) ==
    IF n = 0 \/ r.pc # "decompress" THEN r ELSE DecompressRun(DecompressIter(r), n - 1)

Zeros(k) == [i \in 1..k |-> 0]

\* C11: the bytes robust_b64decode recovers from the base64 text of an
\* artifact c of compress, with a newline inserted and/or the '=' padding
\* dropped, are c followed only by zero bytes, and decompress of them does
\* at every step what decompress of c does: the same symbols, the same
\* output bytes, the same return or error.
C11_Base64Tolerance ==
    (artifact = "base64" /\ pc \in {"decompress", "done", "raised"})
        => /\ \E k \in 0..2 : token_decoder.input = compressed \o Zeros(k)
           /\ LET ref == DecompressRun(DecompressEntry(compressed), Len(dInputs))
              IN  /\ ref.decodedSyms = decodedSyms
                  /\ ref.decompressed = decompressed
                  /\ ref.pc = pc
                  /\ ref.error = error
                  /\ ref.token_decoder.low = token_decoder.low
                  /\ ref.token_decoder.high = token_decoder.high
                  /\ ref.token_decoder.code = token_decoder.code

\* C11 witness: an artifact whose base64 text lost its padding and gained a
\* newline was recovered with zero bytes after it, and decompress of the
\* recovered bytes returned two bytes of output.
C11_Witness ==
    /\ artifact = "base64" /\ pc = "done"
    /\ \E i \in 1..Len(b64Input) : b64Input[i] = 10
    /\ \A i \in 1..Len(b64Input) : b64Input[i] # 61
    /\ Len(token_decoder.input) > Len(compressed)
    /\ token_decoder.byte_index >= Len(compressed)
    /\ Len(decompressed) >= 2

\* C12: when a KeyboardInterrupt has ended a decompression request, standard
\* output holds what it held when the request began: neither the bytes
\* decoded so far nor the result of an earlier request is written.
C12_CancelDiscards == cancelled => stdout = stdoutBefore

\* low and high are state values
InState ==
    /\ 0 <= coder.low /\ coder.low <= state_mask
    /\ 0 <= coder.high /\ coder.high <= state_mask

\* what holds when update has returned
AfterUpdate ==
    /\ coder.low < half_range /\ half_range <= coder.high
    /\ ~(Bit(coder.low, NUM_STATE_BITS - 2) = 1 /\ Bit(coder.high, NUM_STATE_BITS - 2) = 0)
    /\ coder.high - coder.low + 1 > quarter_range
    /\ frame.call > 0 => quarter_range >= frame.total

\* C13 (as stated): after calls of update with strictly increasing CDFs of
\* total <= FREQ_SCALE_FACTOR + V and symbols in [0, V), 0 <= low <= high <=
\* state_mask at every statement of update, and when update has returned
\* low < half_range <= high, low and high are not 01... and 10..., and
\* high - low + 1 > quarter_range >= total.
C13_Original ==
    wellFormed =>
        /\ InState
        /\ coder.low <= coder.high
        /\ updPc \in {"idle", "finished"} => AfterUpdate

\* C13 (amended): the same, except that between the two assignments of an
\* iteration of the first loop (line 40 done, line 41 not yet) low may
\* exceed high.
C13_CoderInvariant ==
    wellFormed =>
        /\ InState
        /\ updPc # "l41" => coder.low <= coder.high
        /\ updPc \in {"idle", "finished"} => AfterUpdate

\* C13 witness: the last of MaxUpdates well-formed calls has returned, both
\* loops having run in it.
C13_Witness ==
    /\ wellFormed /\ updPc = "idle" /\ frame.call = MaxUpdates
    /\ iters[1] > 0 /\ iters[2] > 0
    /\ AfterUpdate

\* the call in progress, or the last call, had a symbol outside [0, V) or
\* a CDF of total zero
BadCall ==
    /\ frame.call > 0
    /\ \/ frame.symbol < 0
       \/ frame.symbol >= Len(frame.cum_freqs)
       \/ frame.total = 0

\* C15: a call of update with a symbol outside [0, V) or a CDF of total zero
\* ends in an error before any assignment: low, high, the underflow counter
\* and the output buffer are as they were when the call began.
C15_DefensiveFailure ==
    BadCall =>
        /\ updPc \in {"l35", "raised"}
        /\ coder = entryState

\* bit j (from 0) of the buffer: byte j div 8, bit position 7 - (j mod 8)
StoredBit(data, j) == Bit(data[(j \div 8) + 1], 7 - (j % 8))

\* the buffer holds the emitted bits, packed high bit first and zero-padded
Packed ==
    LET k == Len(emitted)
        data == get_encoded(coder)
    IN  /\ Len(data) = (k + 7) \div 8
        /\ \A j \in 0..(k - 1) : StoredBit(data, j) = emitted[j + 1]
        /\ \A j \in k..(8 * Len(data) - 1) : StoredBit(data, j) = 0
        /\ \A i \in 1..Len(data) : 0 <= data[i] /\ data[i] <= 255
        /\ updPc = "finished" => (k >= 1 /\ emitted[k] = 1 /\ Len(data) >= 1)

\* C16: after every step of the encoder the buffer has ceil(k/8) bytes for
\* the k bits emitted, bit j in byte j div 8 at position 7 - (j mod 8), the
\* unused low bits of the last byte 0, the last bit after finish the
\* terminator 1 (so at least one byte); and no step changes a bit that was
\* written before it.
C16_ByteFormat ==
    [][/\ Packed'
       /\ Len(get_encoded(coder')) >= Len(get_encoded(coder))
       /\ \A j \in 0..(Len(emitted) - 1) :
              StoredBit(get_encoded(coder'), j) = StoredBit(get_encoded(coder), j)]_vars

\* C16 witness: finish has run after MaxUpdates calls, more than one byte
\* is in the buffer, its last byte partly used, and pending underflow bits
\* were written.
C16_Witness ==
    /\ updPc = "finished" /\ frame.call = MaxUpdates
    /\ Len(get_encoded(coder)) >= 2
    /\ Len(emitted) % 8 # 0
    /\ Packed
    /\ \E j \in 2..Len(emitted) : emitted[j] # emitted[j - 1]

\* the call in progress began with low <= high and has a symbol of non-zero
\* width
ProperCall ==
    /\ frame.call > 0 /\ frame.raised = "none"
    /\ entryState.low <= entryState.high
    /\ HasInterval(frame.cum_freqs, frame.symbol)

\* C17: in an update on a state with low <= high and a symbol of non-zero
\* width, each of the two loops runs at most NUM_STATE_BITS times.
C17_RenormTerminates ==
    ProperCall => (iters[1] <= NUM_STATE_BITS /\ iters[2] <= NUM_STATE_BITS)

\* C17 witness: such an update has returned after five iterations of the
\* first loop and one of the second.
C17_Witness ==
    /\ ProperCall /\ updPc = "idle"
    /\ iters[1] >= 5 /\ iters[2] >= 1

\* C14: decode_symbol returns the smallest index s with c[s] > value, for
\* value = ((code - low + 1) * total - 1) // range of the state before the
\* call: every index before s has c[j] <= value, and s has a non-empty
\* interval (a symbol with c[s] = c[s-1] is never returned).
C14_SymbolSearch ==
    [][(decoded' # decoded /\ decoded'[Len(decoded')] >= 0) =>
          LET cum_freqs == pairs'[Len(decoded')].cum_freqs
              value == DecodeValue(coderDec, cum_freqs)
              s == decoded'[Len(decoded')]
          IN  /\ s <= Len(cum_freqs)
              /\ s < Len(cum_freqs) => cum_freqs[s + 1] > value
              /\ \A j \in 0..(s - 1) : cum_freqs[j + 1] <= value
              /\ s < Len(cum_freqs) => HasInterval(cum_freqs, s)]_vars

\* C14 witness: under the CDF with the tie c[1] = c[0] the symbols 0 and 2
\* were both returned, never the symbol 1.
C14_Witness ==
    /\ coderPhase = "given"
    /\ \E i \in 1..Len(decoded) : pairs[i].cum_freqs = <<1, 1, 32>> /\ decoded[i] = 0
    /\ \E i \in 1..Len(decoded) : pairs[i].cum_freqs = <<1, 1, 32>> /\ decoded[i] = 2

\* every CDF the Decoder was given is strictly increasing
StrictCdfs == \A i \in 1..Len(pairs) : StrictlyIncreasing(pairs[i].cum_freqs)

\* C18: a Decoder over any bytes, decoding under strictly increasing CDFs,
\* has low <= code <= high before and after every decode_symbol; value is
\* in [0, total) for whatever CDF comes next; every decoded symbol is in
\* [0, V) and decode_symbol raises nothing.
C18_DecoderInRange ==
    (coderPhase \in {"given", "decode"} /\ StrictCdfs) =>
        /\ coderDec.error = "none"
        /\ coderDec.low <= coderDec.code /\ coderDec.code <= coderDec.high
        /\ \A i \in 1..Len(decoded) :
              0 <= decoded[i] /\ decoded[i] < Len(pairs[i].cum_freqs)
        /\ \A cum_freqs \in CoderCdfs :
              /\ 0 <= DecodeValue(coderDec, cum_freqs)
              /\ DecodeValue(coderDec, cum_freqs) < At(cum_freqs, -1)

\* C18 witness: MaxPairs symbols decoded from two bytes that no Encoder
\* produced, every bit of them read.
C18_Witness ==
    /\ coderPhase = "given" /\ StrictCdfs
    /\ coderDec.input = <<170, 85>>
    /\ coderDec.byte_index >= Len(coderDec.input)
    /\ Len(decoded) = MaxPairs
    /\ coderDec.low <= coderDec.code /\ coderDec.code <= coderDec.high

\* BOS and the last Min(n, window_overlap) of the first n tokens of toks
WindowOf(toks, n) ==
    <<bos_token_id>> \o SubSeq(toks, n - Min(n, window_overlap) + 1, n)

\* C19: with 0 <= window_overlap < max_context, the ids given to the model
\* at step i of compress and of decompress are BOS followed by the last
\* min(i, w) tokens coded before the step: non-empty, BOS first, of length
\* min(i, w) + 1 <= max_context, nothing removed by the truncation.
C19_InputShape ==
    InRange =>
        /\ \A i \in 1..Len(cInputs) :
              /\ cInputs[i] = WindowOf(tokens, i - 1)
              /\ cInputs[i][1] = bos_token_id
              /\ Len(cInputs[i]) = Min(i - 1, window_overlap) + 1
              /\ Len(cInputs[i]) <= max_context_length
        /\ \A i \in 1..Len(dInputs) :
              /\ dInputs[i] = WindowOf(decodedSyms, i - 1)
              /\ dInputs[i][1] = bos_token_id
              /\ Len(dInputs[i]) = Min(i - 1, window_overlap) + 1
              /\ Len(dInputs[i]) <= max_context_length

\* C19 witness: with the largest window, max_context - 1, compress and
\* decompress have both given the model an input of max_context ids, the
\* length at which the truncation is applied, and a later one.
C19_Witness ==
    /\ InRange /\ window_overlap = max_context_length - 1
    /\ max_context_length = ModelMaxPositions
    /\ Len(cInputs) > max_context_length /\ Len(dInputs) > max_context_length
    /\ Len(cInputs[max_context_length]) = max_context_length
    /\ Len(dInputs[max_context_length + 1]) = max_context_length
    /\ dInputs[max_context_length + 1] = WindowOf(decodedSyms, max_context_length)

\* valid + invalid of the chunks, in order
RECURSIVE ChunkBytes(_)
ChunkBytes(chunks) ==
    IF chunks = <<>> THEN <<>>
    ELSE Head(chunks).valid \o Head(chunks).invalid \o ChunkBytes(Tail(chunks))

\* C20: the chunks returned so far and the bytes still to scan are the
\* input, in order; every chunk holds at least one byte, so the iteration
\* stops after at most len(input) chunks, with nothing left; and the valid
\* part of every chunk is well-formed UTF-8 (it decodes under the strict
\* decoder: no overlong form, surrogate, value above U+10FFFF or cut
\* sequence).
C20_ChunksPartition ==
    codecStage \in {"chunks", "stopped"} =>
        /\ ChunkBytes(yielded) \o source = codecData
        /\ \A i \in 1..Len(yielded) :
              /\ Len(yielded[i].valid) + Len(yielded[i].invalid) >= 1
              /\ PyDecodeUtf8(yielded[i].valid) # DecodeError
        /\ Len(yielded) <= Len(codecData)
        /\ codecStage = "stopped" => (source = <<>> /\ ChunkBytes(yielded) = codecData)

\* C20 witness: F0 8F (an overlong four-byte form), then the valid C2 80,
\* scanned to the end in three chunks, the last with a valid part only.
C20_Witness ==
    /\ codecStage = "stopped"
    /\ codecData = <<240, 143, 194, 128>>
    /\ Len(yielded) = 3
    /\ yielded[3] = Utf8Chunk(<<194, 128>>, <<>>)

\* C21: after any call to LlamaZip.compress, whether it returned (interrupted
\* or not) or raised, the process SIGINT handler is the one that was
\* installed when the call began.
C21_HandlerRestored ==
    (pc \in {"compressed", "raised"} /\ handlerBefore # "none")
        => handler = handlerBefore

=========================================================================
